---- MODULE Spec2Model ----
(***************************************************************************)
(* Model of awsalot's rds-sg-connector command                             *)
(* (src/awsalot/rds_sg_connector.py).  One run of main(): option parsing,  *)
(* source security group resolution (ECS or EC2 path), selection of the    *)
(* database instances, resolution of each instance's security group, and   *)
(* the loop that authorizes ingress on every resolved group.               *)
(*                                                                         *)
(* The cloud provider is an input: each provider call draws its response   *)
(* (or its failure) from a small set.  apiCalls is the log of mutating     *)
(* requests the provider received, stdout the lines the run printed.       *)
(***************************************************************************)
EXTENDS Integers, Sequences, FiniteSets, TLC

VARIABLES
    pc,                   \* position in main()
    cliService,           \* text typed after --service, or None when omitted
    dry_run,              \* --dry-run flag
    service,              \* main's local `service`
    sourcePath,           \* which resolver main called for the source
    src_sg,               \* main's local `src_sg`
    selected,             \* resources["rds_instances"]
    description,          \* resources["description"]
    reported,             \* per resolved instance: ids the lookup returned
    rds_security_groups,  \* main's local list
    i,                    \* iterations of the for loop completed
    apiCalls,             \* mutating requests received by the provider
    stdout,               \* lines printed by the run
    abortAt               \* pc at which an uncaught exception ended the run

vars == <<pc, cliService, dry_run, service, sourcePath, src_sg, selected,
          description, reported, rds_security_groups, i, apiCalls, stdout,
          abortAt>>

None == "none"

(* ---------------------------- bounds ---------------------------------- *)
MaxTargets == 2      \* database instances selected in one run
MaxGroups == 2       \* security groups the provider reports per resource

(* ---------------------------- input sets ------------------------------ *)
DbInstances == {"db-a", "db-b", "db-c"}
TargetGroups == {"sg-a", "sg-b"}
SourceGroups == {"sg-src1", "sg-src2"}
Descriptions == {"Allow connections from service", "custom description"}
CliServiceInputs == {"ecs", "ECS", "Ecs", "ec2", "EC2"}
AuthorizeResults == {"ok", "ClientError", "OtherError"}

\* Sequences over S of length at most n without repeated elements
\* (a provider's list of group ids, a checkbox selection).
RECURSIVE DistinctSeqs(_, _)
DistinctSeqs(S, n) ==
    IF n = 0 THEN {<<>>}
    ELSE LET shorter == DistinctSeqs(S, n - 1)
             ext == {p \in shorter \X S :
                        /\ Len(p[1]) = n - 1
                        /\ \A k \in 1..Len(p[1]) : p[1][k] # p[2]}
         IN shorter \cup {Append(p[1], p[2]) : p \in ext}

\* A provider read either raises or returns the list of group ids it holds.
GroupListResponses(S) ==
    {[error |-> TRUE, groups |-> <<>>]} \cup
    {[error |-> FALSE, groups |-> g] : g \in DistinctSeqs(S, MaxGroups)}

\* describe_db_instances(DBInstanceIdentifier=...): raises, finds no
\* instance, or returns one instance with its VpcSecurityGroups.
DescribeDbResponses ==
    {[error |-> TRUE, DBInstances |-> <<>>],
     [error |-> FALSE, DBInstances |-> <<>>]} \cup
    {[error |-> FALSE,
      DBInstances |-> <<[VpcSecurityGroups |-> g]>>] :
        g \in DistinctSeqs(TargetGroups, MaxGroups)}

(* ---------------------------- option parsing -------------------------- *)
\* str.casefold on the texts the option can receive.
Casefold(s) ==
    CASE s \in {"ecs", "ECS", "Ecs"} -> "ecs"
      [] s \in {"ec2", "EC2"} -> "ec2"
      [] OTHER -> s

ServiceChoices == <<"ECS", "EC2">>

\* click.Choice(ServiceChoices, case_sensitive=False).convert: the value is
\* matched case-insensitively and the matching declared choice is returned
\* (click 7.1 and later; a value typed exactly as declared is returned
\* unchanged by every version).
ChoiceConvert(value) ==
    LET k == CHOOSE n \in 1..Len(ServiceChoices) :
                 Casefold(ServiceChoices[n]) = Casefold(value)
    IN ServiceChoices[k]

\* inquirer.list_input(..., choices=("ecs", "ec2"))
PromptChoices == {"ecs", "ec2"}

(* ---------------------------- resolvers ------------------------------- *)
\* groups[0] / next(...) on a provider list; Raises is the IndexError or
\* StopIteration of an empty list.
Raises(groups) == groups = <<>>

\* Variant: the last reported group is taken instead of the first.
LastOf(groups) == groups[Len(groups)]

FirstOf(groups) == groups[1]

get_security_group_ids_for_rds_instance(response) ==
    IF response.error THEN <<>>
    ELSE IF response.DBInstances # <<>>
         THEN response.DBInstances[1].VpcSecurityGroups
         ELSE <<>>

\* The list comprehension of main is complete once it has an entry for
\* every selected instance.
\* Variant: a lazily consumed comprehension hands over to the loop as soon as
\* it holds one entry.
LazyComprehensionDone(groups, targets) ==
    Len(groups) = Len(targets) \/ Len(groups) >= 1

ComprehensionDone(groups, targets) == Len(groups) = Len(targets)

(* ---------------------------- reconciler ------------------------------ *)
\* Variant: source and target group are swapped in the request.
SwappedAuthorizeRequest(security_group_id, protocol, from_port, to_port, source_security_group_id, descr) ==
    [op |-> "authorize_security_group_ingress",
     GroupId |-> source_security_group_id,
     IpPermissions |-> <<[IpProtocol |-> protocol,
                          FromPort |-> from_port,
                          ToPort |-> to_port,
                          UserIdGroupPairs |->
                              <<[GroupId |-> security_group_id,
                                 Description |-> descr]>>]>>]

AuthorizeRequest(security_group_id, protocol, from_port, to_port, source_security_group_id, descr) ==
    [op |-> "authorize_security_group_ingress",
     GroupId |-> security_group_id,
     IpPermissions |-> <<[IpProtocol |-> protocol,
                          FromPort |-> from_port,
                          ToPort |-> to_port,
                          UserIdGroupPairs |->
                              <<[GroupId |-> source_security_group_id,
                                 Description |-> descr]>>]>>]

\* Outcome of one authorize request sent outside dry-run mode.
Authorized(request, security_group_id, result, caught, attempts) ==
    LET call == [request |-> request, result |-> result]
    IN CASE result = "ok" ->
              [calls |-> <<call>>,
               lines |-> <<[kind |-> "Updated",
                            group |-> security_group_id]>>,
               raised |-> FALSE]
         [] result \in caught ->
              [calls |-> [k \in 1..attempts |-> call],
               lines |-> <<[kind |-> "ErrorUpdating",
                            group |-> security_group_id]>>,
               raised |-> FALSE]
         [] OTHER ->
              [calls |-> <<call>>,
               lines |-> <<>>,
               raised |-> TRUE]

\* Variant: the dry_run flag is ignored.
modify_ignoring_dry_run(security_group_id, protocol, from_port, to_port, source_security_group_id, descr, dryRun, result) ==
    Authorized(AuthorizeRequest(security_group_id, protocol, from_port,
                                to_port, source_security_group_id, descr),
               security_group_id, result, {"ClientError"}, 1)

\* Variant: no except clause around the authorize call.
modify_without_except(security_group_id, protocol, from_port, to_port, source_security_group_id, descr, dryRun, result) ==
    IF dryRun
    THEN [calls |-> <<>>,
          lines |-> <<[kind |-> "DryRun", group |-> security_group_id]>>,
          raised |-> FALSE]
    ELSE Authorized(AuthorizeRequest(security_group_id, protocol, from_port,
                                     to_port, source_security_group_id,
                                     descr),
                    security_group_id, result, {}, 1)

\* Variant: a request rejected with ClientError is sent a second time.
modify_with_retry(security_group_id, protocol, from_port, to_port, source_security_group_id, descr, dryRun, result) ==
    IF dryRun
    THEN [calls |-> <<>>,
          lines |-> <<[kind |-> "DryRun", group |-> security_group_id]>>,
          raised |-> FALSE]
    ELSE Authorized(AuthorizeRequest(security_group_id, protocol, from_port,
                                     to_port, source_security_group_id,
                                     descr),
                    security_group_id, result, {"ClientError"}, 2)

\* Effect of one call of modify_security_group_rules when the provider
\* answers the authorize request with `result`: the requests sent, the lines
\* printed, and whether an exception leaves the function.
modify_security_group_rules(security_group_id, protocol, from_port, to_port, source_security_group_id, descr, dryRun, result) ==
    LET request == AuthorizeRequest(security_group_id, protocol, from_port,
                                    to_port, source_security_group_id, descr)
    IN IF dryRun
       THEN [calls |-> <<>>,
             lines |-> <<[kind |-> "DryRun", group |-> security_group_id]>>,
             raised |-> FALSE]
       ELSE CASE result = "ok" ->
                   [calls |-> <<[request |-> request, result |-> result]>>,
                    lines |-> <<[kind |-> "Updated",
                                 group |-> security_group_id]>>,
                    raised |-> FALSE]
              [] result = "ClientError" ->
                   [calls |-> <<[request |-> request, result |-> result]>>,
                    lines |-> <<[kind |-> "ErrorUpdating",
                                 group |-> security_group_id]>>,
                    raised |-> FALSE]
              [] OTHER ->
                   [calls |-> <<[request |-> request, result |-> result]>>,
                    lines |-> <<>>,
                    raised |-> TRUE]

\* Variant: the list is visited from its end.
ReversedLoopOrder(groups) == [k \in 1..Len(groups) |-> Len(groups) + 1 - k]

\* Order in which `for rds_sg_id in rds_security_groups` visits the list.
LoopOrder(groups) == [k \in 1..Len(groups) |-> k]

\* Tag the entries of one iteration with the position of the target it served.
Tagged(entries, idx) ==
    [k \in 1..Len(entries) |-> [idx |-> idx, entry |-> entries[k]]]

(* ---------------------------- state machine --------------------------- *)
Init ==
    /\ pc = "main"
    /\ cliService \in CliServiceInputs \cup {None}
    /\ dry_run \in BOOLEAN
    /\ service = None
    /\ sourcePath = None
    /\ src_sg = None
    /\ selected = <<>>
    /\ description = None
    /\ reported = <<>>
    /\ rds_security_groups = <<>>
    /\ i = 0
    /\ apiCalls = <<>>
    /\ stdout = <<>>
    /\ abortAt = None

\* An uncaught exception ends the run where it is.
Abort ==
    /\ pc' = "aborted"
    /\ abortAt' = pc

\* main: `service = service or inquirer.list_input(...)`
ParseService ==
    /\ pc = "main"
    /\ \/ /\ cliService # None
          /\ service' = ChoiceConvert(cliService)
       \/ /\ cliService = None
          /\ service' \in PromptChoices
    /\ pc' = "source"
    /\ UNCHANGED <<cliService, dry_run, sourcePath, src_sg, selected,
                   description, reported, rds_security_groups, i, apiCalls,
                   stdout, abortAt>>

\* Common part of the two source resolvers: the provider read raises, or the
\* first group of the list is taken (an empty list raises).
ResolveSourceVia(path) ==
    /\ sourcePath' = path
    /\ \E response \in GroupListResponses(SourceGroups) :
          IF response.error \/ Raises(response.groups)
          THEN /\ Abort
               /\ UNCHANGED src_sg
          ELSE /\ src_sg' = FirstOf(response.groups)
               /\ pc' = "prompt"
               /\ UNCHANGED abortAt
    /\ UNCHANGED <<cliService, dry_run, service, selected, description,
                   reported, rds_security_groups, i, apiCalls, stdout>>

\* main: get_ecs_security_group() if service == "ecs"
ResolveSourceEcs ==
    /\ pc = "source"
    /\ service = "ecs"
    /\ ResolveSourceVia("ecs")

\* main: ... else get_ec2_security_group()
ResolveSourceEc2 ==
    /\ pc = "source"
    /\ service # "ecs"
    /\ ResolveSourceVia("ec2")

\* main: list_rds_instances() and the checkbox / text prompt
SelectTargets ==
    /\ pc = "prompt"
    /\ \/ /\ Abort
          /\ UNCHANGED <<selected, description>>
       \/ /\ selected' \in DistinctSeqs(DbInstances, MaxTargets)
          /\ description' \in Descriptions
          /\ pc' = IF ComprehensionDone(<<>>, selected')
                   THEN "done" ELSE "resolve"
          /\ UNCHANGED abortAt
    /\ UNCHANGED <<cliService, dry_run, service, sourcePath, src_sg,
                   reported, rds_security_groups, i, apiCalls, stdout>>

\* One element of the list comprehension:
\* get_security_group_ids_for_rds_instance(rds_instance)[0]
ResolveTarget ==
    /\ pc = "resolve"
    /\ \E response \in DescribeDbResponses :
          LET idx == Len(rds_security_groups) + 1
              ids == get_security_group_ids_for_rds_instance(response)
              line == IF response.error
                      THEN <<[kind |-> "ErrorFetching",
                              group |-> selected[idx]]>>
                      ELSE <<>>
          IN /\ reported' = Append(reported, ids)
             /\ stdout' = stdout \o Tagged(line, idx)
             /\ IF Raises(ids)
                THEN /\ Abort
                     /\ UNCHANGED rds_security_groups
                ELSE /\ rds_security_groups' =
                            Append(rds_security_groups, FirstOf(ids))
                     /\ pc' = IF ComprehensionDone(rds_security_groups',
                                                   selected)
                              THEN "mutate" ELSE "resolve"
                     /\ UNCHANGED abortAt
    /\ UNCHANGED <<cliService, dry_run, service, sourcePath, src_sg,
                   selected, description, i, apiCalls>>

\* One iteration of the for loop: modify_security_group_rules(...)
ModifyTarget ==
    /\ pc = "mutate"
    /\ \E result \in AuthorizeResults :
          LET idx == LoopOrder(rds_security_groups)[i + 1]
              eff == modify_security_group_rules(
                         rds_security_groups[idx], "tcp", 5432, 5432,
                         src_sg, description, dry_run, result)
          IN /\ apiCalls' = apiCalls \o Tagged(eff.calls, idx)
             /\ stdout' = stdout \o Tagged(eff.lines, idx)
             /\ IF eff.raised
                THEN /\ Abort
                     /\ UNCHANGED i
                ELSE /\ i' = i + 1
                     /\ pc' = IF i' = Len(rds_security_groups)
                              THEN "done" ELSE "mutate"
                     /\ UNCHANGED abortAt
    /\ UNCHANGED <<cliService, dry_run, service, sourcePath, src_sg,
                   selected, description, reported, rds_security_groups>>

Next ==
    \/ ParseService
    \/ ResolveSourceEcs
    \/ ResolveSourceEc2
    \/ SelectTargets
    \/ ResolveTarget
    \/ ModifyTarget

Spec == Init /\ [][Next]_vars


(* ---------------------------- observations ---------------------------- *)
OutcomeKinds == {"DryRun", "Updated", "ErrorUpdating"}

IsOutcome(line) == line.entry.kind \in OutcomeKinds

\* The per-target outcome lines, in the order they were printed.
Outcomes == SelectSeq(stdout, IsOutcome)

\* Authorize requests sent on behalf of the target at position k.
CallsFor(k) == {n \in 1..Len(apiCalls) : apiCalls[n].idx = k}

\* Outcome lines printed for the target at position k.
OutcomesFor(k) == {n \in 1..Len(Outcomes) : Outcomes[n].idx = k}

\* Per-target state: Pending while no outcome line exists for it.
StatusOf(k) == {Outcomes[n].entry.kind : n \in OutcomesFor(k)}

Ended == pc \in {"done", "aborted"}

(* ---------------------------- C1 -------------------------------------- *)
\* C1: in a run with --dry-run set, no authorize-security-group-ingress
\* request is ever sent to the provider.
C1_DryRunNoAuthorize == dry_run => apiCalls = <<>>

C1_Witness ==
    /\ dry_run
    /\ pc = "done"
    /\ Len(Outcomes) >= 2
    /\ \A n \in 1..Len(Outcomes) : Outcomes[n].entry.kind = "DryRun"

(* ---------------------------- C2 -------------------------------------- *)
\* C2: a selected instance whose lookup yields no security group is skipped
\* and the run does not abort because of it.
C2_UnresolvedTargetSkipped ==
    \A k \in 1..Len(reported) : reported[k] = <<>> => abortAt # "resolve"

C4_OneOutcomePerTarget ==
    (Ended /\ selected # <<>>) =>
        \A k \in 1..Len(selected) : Cardinality(OutcomesFor(k)) = 1

(* ---------------------------- C5 -------------------------------------- *)
\* C5: --service ecs (in any letter case) resolves the source through the ECS
\* path and --service ec2 through the EC2 path.
C5_ServiceFlagSelectsPath ==
    (cliService # None /\ sourcePath # None) =>
        sourcePath = Casefold(cliService)

(* ---------------------------- C6 -------------------------------------- *)
\* C6: outcomes are produced in selection order, one target at a time: the
\* n-th outcome belongs to the n-th selected target, and every authorize
\* request names exactly the one group resolved for its target.
C6_SelectionOrder ==
    /\ \A n \in 1..Len(Outcomes) :
          /\ Outcomes[n].idx = n
          /\ Outcomes[n].entry.group = rds_security_groups[n]
    /\ \A n \in 1..Len(apiCalls) :
          /\ \A m \in 1..(n - 1) : apiCalls[m].idx < apiCalls[n].idx
          /\ apiCalls[n].entry.request.GroupId =
                 rds_security_groups[apiCalls[n].idx]
          /\ Len(apiCalls[n].entry.request.IpPermissions) = 1

C6_Witness ==
    /\ pc = "done"
    /\ Len(Outcomes) >= 2
    /\ rds_security_groups[1] # rds_security_groups[2]
    /\ Outcomes[1].entry.kind = "Updated"
    /\ Outcomes[2].entry.kind = "Updated"

(* ---------------------------- C7 -------------------------------------- *)
\* C7: every authorize request of a run has the same rule: one permission,
\* tcp 5432-5432, one group pair naming the resolved source group with the
\* run's description, no other source kind; only the target group varies.
C7_SameRuleShape ==
    \A n \in 1..Len(apiCalls) :
        LET request == apiCalls[n].entry.request
        IN /\ request.op = "authorize_security_group_ingress"
           /\ request.GroupId \in TargetGroups
           /\ Len(request.IpPermissions) = 1
           /\ DOMAIN request.IpPermissions[1] =
                  {"IpProtocol", "FromPort", "ToPort", "UserIdGroupPairs"}
           /\ request.IpPermissions[1] =
                  [IpProtocol |-> "tcp",
                   FromPort |-> 5432,
                   ToPort |-> 5432,
                   UserIdGroupPairs |-> <<[GroupId |-> src_sg,
                                           Description |-> description]>>]

C7_Witness ==
    /\ Len(apiCalls) >= 2
    /\ apiCalls[1].entry.request.GroupId # apiCalls[2].entry.request.GroupId

(* ---------------------------- C8 -------------------------------------- *)
\* C8: the group used for a selected instance is the first one the provider
\* reported for it; requests and reports for that instance name no other.
C8_FirstGroupOnly ==
    /\ \A k \in 1..Len(rds_security_groups) :
          /\ reported[k] # <<>>
          /\ rds_security_groups[k] = reported[k][1]
    /\ \A n \in 1..Len(apiCalls) :
          apiCalls[n].entry.request.GroupId = reported[apiCalls[n].idx][1]
    /\ \A n \in 1..Len(Outcomes) :
          Outcomes[n].entry.group = reported[Outcomes[n].idx][1]

C8_Witness ==
    \E n \in 1..Len(apiCalls) :
        /\ Len(reported[apiCalls[n].idx]) >= 2
        /\ apiCalls[n].entry.result = "ok"

(* ---------------------------- C9 -------------------------------------- *)
\* C9: a target has at most one outcome and keeps it; at most one authorize
\* request is sent per target, and nothing but authorize requests is sent.
C9_Terminal ==
    /\ [](\A k \in 1..Len(selected) :
            /\ Cardinality(OutcomesFor(k)) <= 1
            /\ Cardinality(CallsFor(k)) <= 1)
    /\ [](\A n \in 1..Len(apiCalls) :
            apiCalls[n].entry.request.op = "authorize_security_group_ingress")
    /\ [][\A k \in 1..Len(selected) :
            StatusOf(k) # {} => StatusOf(k)' = StatusOf(k)]_vars

C9_Witness ==
    /\ pc = "done"
    /\ StatusOf(1) = {"Updated"}
    /\ StatusOf(2) = {"ErrorUpdating"}
    /\ Len(apiCalls) = 2

(* ---------------------------- C10 ------------------------------------- *)
\* C10: an authorize request is only sent once the source group and the group
\* of every selected instance are resolved; a run that aborts while resolving
\* has sent none.
C10_ResolveBeforeMutate ==
    /\ apiCalls # <<>> =>
          /\ src_sg # None
          /\ Len(rds_security_groups) = Len(selected)
          /\ Len(reported) = Len(selected)
    /\ abortAt \in {"source", "prompt", "resolve"} => apiCalls = <<>>

C10_Witness ==
    /\ ~dry_run
    /\ abortAt = "resolve"
    /\ Len(rds_security_groups) >= 1
    /\ apiCalls = <<>>

====
